---- MODULE Spec2Model ----
(***************************************************************************)
(* A model of apps/chrome-extension/src/common/utils.ts:                   *)
(*   - UniqueFileName (generate, generateWithUUID),                        *)
(*   - transformInvalidTablesToHtml,                                       *)
(*   - transformGridToHtml (findTableElement, normalizeWidthValue,         *)
(*     extractColumnWidths, visit).                                        *)
(* Strings are sequences of one-character strings, so that lastIndexOf,    *)
(* slice, concat and the number formats are computed, not assumed.         *)
(***************************************************************************)
EXTENDS Integers, Sequences, FiniteSets, TLC

VARIABLES
  usedNames,        \* UniqueFileName.usedNames: Set<string>
  fileNameToPreId,  \* UniqueFileName.fileNameToPreId: Map<string, number>
  calls,            \* history: the calls made so far, with what each returned
  frame,            \* the call in progress, when a call is run loop step by loop step
  wIn,              \* normalizeWidthValue: the argument
  wOut,             \* normalizeWidthValue: whether it has returned, and what
  itRecords,        \* transformInvalidTablesToHtml: the argument invalidTables
  itHeaps,          \* the heap before the call and, once it is done, after each record
  itDone,           \* transformInvalidTablesToHtml has returned
  gBefore,          \* transformGridToHtml: the heap when the call is made
  gAfter,           \* the heap when it returns, and whether it threw
  gDone             \* transformGridToHtml has returned or thrown

nameVars == <<usedNames, fileNameToPreId, calls, frame>>
widthVars == <<wIn, wOut>>
invalidVars == <<itRecords, itHeaps, itDone>>
gridVars == <<gBefore, gAfter, gDone>>

(***************************************************************************)
(* Bounds.                                                                 *)
(***************************************************************************)
\* the number of calls made on one UniqueFileName instance
MaxCalls == 3

(***************************************************************************)
(* Strings.                                                                *)
(***************************************************************************)
\* String.prototype.lastIndexOf for a one-character needle: 0-based, -1 if absent
LastIndexOf(s, ch) ==
  LET hits == {i \in 1..Len(s) : s[i] = ch}
  IN IF hits = {} THEN -1 ELSE (CHOOSE i \in hits : \A j \in hits : j <= i) - 1

\* s.slice(from, to) for 0 <= from <= to <= s.length
Slice(s, from, to) == SubSeq(s, from + 1, to)

\* s.slice(from) for 0 <= from <= s.length
SliceFrom(s, from) == SubSeq(s, from + 1, Len(s))

DigitChar(d) ==
  CASE d = 0 -> "0" [] d = 1 -> "1" [] d = 2 -> "2" [] d = 3 -> "3" [] d = 4 -> "4"
    [] d = 5 -> "5" [] d = 6 -> "6" [] d = 7 -> "7" [] d = 8 -> "8" [] d = 9 -> "9"

RECURSIVE NatToString(_)
\* the decimal digits of a natural number
NatToString(n) ==
  IF n < 10 THEN <<DigitChar(n)>> ELSE NatToString(n \div 10) \o <<DigitChar(n % 10)>>

\* Number.prototype.toFixed() of a positive integer counter: its decimal digits
ToFixed(id) == NatToString(id)

(***************************************************************************)
(* The inputs: base names and the tokens uuidv4() may return.              *)
(***************************************************************************)
BaseNames ==
  { <<"a", ".", "t", "x", "t">>,
    <<"a", "-", "1", ".", "t", "x", "t">>,
    <<"R", "E", "A", "D", "M", "E">>,
    <<"R", "E", "A", "D", "M", "E", "-", "1">>,
    <<".", "e", "n", "v">>,
    <<"u", "-", "1", ".", "t", "x", "t">> }

\* uuidv4(): a random token; two tokens, so that a token may repeat (the collision
\* the code handles) or not
UUIDs == { <<"u">>, <<"v">> }

(***************************************************************************)
(* UniqueFileName.                                                         *)
(***************************************************************************)
\* Map.prototype.get(key) ?? 0
PreIdOf(map, key) == IF key \in DOMAIN map THEN map[key] ELSE 0

\* Map.prototype.set(key, value)
MapSet(map, key, value) ==
  [k \in DOMAIN map \cup {key} |-> IF k = key THEN value ELSE map[k]]

\* a faulty variant: the id appended after the extension
SuffixedFileName_Append(originFileName, id) ==
  originFileName \o <<"-">> \o ToFixed(id)

\* the candidate of one loop iteration of generate: the id goes before the extension
SuffixedFileName(originFileName, id) ==
  LET startDotIndex == LastIndexOf(originFileName, ".")
  IN IF startDotIndex = -1
       THEN originFileName \o (<<"-">> \o ToFixed(id))
       ELSE (Slice(originFileName, 0, startDotIndex) \o (<<"-">> \o ToFixed(id)))
              \o SliceFrom(originFileName, startDotIndex)

\* a faulty variant: the counter advanced by two
GenerateIter_SkipId(originFileName, map) ==
  LET preId == PreIdOf(map, originFileName)
      id == preId + 2
  IN [map |-> MapSet(map, originFileName, id),
      newFileName |-> SuffixedFileName(originFileName, id)]

\* a faulty variant: the counter not advanced
GenerateIter_KeepId(originFileName, map) ==
  LET preId == PreIdOf(map, originFileName)
  IN [map |-> MapSet(map, originFileName, preId),
      newFileName |-> SuffixedFileName(originFileName, preId)]

\* one iteration of generate's while loop: the new counter map and the new candidate
GenerateIter(originFileName, map) ==
  LET preId == PreIdOf(map, originFileName)
      id == preId + 1
  IN [map |-> MapSet(map, originFileName, id),
      newFileName |-> SuffixedFileName(originFileName, id)]

RECURSIVE GenerateLoop(_, _, _, _)
\* generate's while loop, from the candidate newFileName on
GenerateLoop(originFileName, used, map, newFileName) ==
  IF newFileName \in used
    THEN LET it == GenerateIter(originFileName, map)
         IN GenerateLoop(originFileName, used, it.map, it.newFileName)
    ELSE [map |-> map, newFileName |-> newFileName]

\* the extension generateWithUUID keeps: from the last '.' on, or ''
ExtensionOf(originFileName) ==
  LET startDotIndex == LastIndexOf(originFileName, ".")
  IN IF startDotIndex = -1 THEN <<>> ELSE SliceFrom(originFileName, startDotIndex)

\* `${uuid}-${counter.toFixed()}${extension}`
UUIDFileName(uuid, counter, extension) ==
  ((uuid \o <<"-">>) \o ToFixed(counter)) \o extension

RECURSIVE UUIDLoop(_, _, _, _, _)
\* generateWithUUID's while loop, from the candidate finalFileName on
UUIDLoop(uuid, extension, used, finalFileName, counter) ==
  IF finalFileName \in used
    THEN UUIDLoop(uuid, extension, used, UUIDFileName(uuid, counter, extension),
                  counter + 1)
    ELSE finalFileName

Idle == [op |-> "idle"]

\* a faulty variant: generate without usedNames.add
Generate_NoRecord(originFileName) ==
  LET r == GenerateLoop(originFileName, usedNames, fileNameToPreId, originFileName)
  IN /\ Len(calls) < MaxCalls
     /\ frame = Idle
     /\ usedNames' = usedNames
     /\ fileNameToPreId' = r.map
     /\ calls' = Append(calls, [op |-> "generate", origin |-> originFileName,
                                result |-> r.newFileName, usedBefore |-> usedNames,
                                mapBefore |-> fileNameToPreId, mapAfter |-> r.map])
     /\ UNCHANGED <<frame, widthVars, invalidVars, gridVars>>

\* generate(originFileName), the whole call
Generate(originFileName) ==
  LET r == GenerateLoop(originFileName, usedNames, fileNameToPreId, originFileName)
  IN /\ Len(calls) < MaxCalls
     /\ frame = Idle
     /\ usedNames' = usedNames \cup {r.newFileName}
     /\ fileNameToPreId' = r.map
     /\ calls' = Append(calls, [op |-> "generate", origin |-> originFileName,
                                result |-> r.newFileName, usedBefore |-> usedNames,
                                mapBefore |-> fileNameToPreId, mapAfter |-> r.map])
     /\ UNCHANGED <<frame, widthVars, invalidVars, gridVars>>

\* generateWithUUID(originFileName), the whole call; uuid is what uuidv4() returned
GenerateWithUUID(originFileName, uuid) ==
  LET extension == ExtensionOf(originFileName)
      newFileName == uuid \o extension
      finalFileName == UUIDLoop(uuid, extension, usedNames, newFileName, 1)
  IN /\ Len(calls) < MaxCalls
     /\ frame = Idle
     /\ usedNames' = usedNames \cup {finalFileName}
     /\ calls' = Append(calls, [op |-> "generateWithUUID", origin |-> originFileName,
                                result |-> finalFileName, usedBefore |-> usedNames,
                                mapBefore |-> fileNameToPreId,
                                mapAfter |-> fileNameToPreId])
     /\ UNCHANGED <<fileNameToPreId, frame, widthVars, invalidVars, gridVars>>

NamesNext ==
  \/ \E b \in BaseNames : Generate(b)
  \/ \E b \in BaseNames, u \in UUIDs : GenerateWithUUID(b, u)


(***************************************************************************)
(* The same two calls, one loop test at a time: a call enters, runs its     *)
(* while loop an iteration per step, and returns.                           *)
(***************************************************************************)
\* generate: let newFileName = originFileName
GenerateEnter(originFileName) ==
  /\ Len(calls) < MaxCalls
  /\ frame = Idle
  /\ frame' = [op |-> "generate", originFileName |-> originFileName,
               newFileName |-> originFileName, mapBefore |-> fileNameToPreId]
  /\ UNCHANGED <<usedNames, fileNameToPreId, calls, widthVars, invalidVars, gridVars>>

\* generate: the loop test holds, the body runs once
GenerateStep ==
  /\ frame.op = "generate"
  /\ frame.newFileName \in usedNames
  /\ LET it == GenerateIter(frame.originFileName, fileNameToPreId)
     IN /\ fileNameToPreId' = it.map
        /\ frame' = [frame EXCEPT !.newFileName = it.newFileName]
  /\ UNCHANGED <<usedNames, calls, widthVars, invalidVars, gridVars>>

\* generate: the loop test fails; usedNames.add(newFileName); return newFileName
GenerateReturn ==
  /\ frame.op = "generate"
  /\ frame.newFileName \notin usedNames
  /\ usedNames' = usedNames \cup {frame.newFileName}
  /\ calls' = Append(calls, [op |-> "generate", origin |-> frame.originFileName,
                             result |-> frame.newFileName, usedBefore |-> usedNames,
                             mapBefore |-> frame.mapBefore,
                             mapAfter |-> fileNameToPreId])
  /\ frame' = Idle
  /\ UNCHANGED <<fileNameToPreId, widthVars, invalidVars, gridVars>>

\* generateWithUUID: up to `let counter = 1`
UUIDEnter(originFileName, uuid) ==
  /\ Len(calls) < MaxCalls
  /\ frame = Idle
  /\ frame' = [op |-> "generateWithUUID", originFileName |-> originFileName,
               uuid |-> uuid, extension |-> ExtensionOf(originFileName),
               finalFileName |-> uuid \o ExtensionOf(originFileName), counter |-> 1]
  /\ UNCHANGED <<usedNames, fileNameToPreId, calls, widthVars, invalidVars, gridVars>>

\* generateWithUUID: the loop test holds, the body runs once
UUIDStep ==
  /\ frame.op = "generateWithUUID"
  /\ frame.finalFileName \in usedNames
  /\ frame' = [frame EXCEPT
                 !.finalFileName = UUIDFileName(frame.uuid, frame.counter, frame.extension),
                 !.counter = frame.counter + 1]
  /\ UNCHANGED <<usedNames, fileNameToPreId, calls, widthVars, invalidVars, gridVars>>

\* generateWithUUID: the loop test fails; usedNames.add(finalFileName); return it
UUIDReturn ==
  /\ frame.op = "generateWithUUID"
  /\ frame.finalFileName \notin usedNames
  /\ usedNames' = usedNames \cup {frame.finalFileName}
  /\ calls' = Append(calls, [op |-> "generateWithUUID", origin |-> frame.originFileName,
                             result |-> frame.finalFileName, usedBefore |-> usedNames,
                             mapBefore |-> fileNameToPreId,
                             mapAfter |-> fileNameToPreId])
  /\ frame' = Idle
  /\ UNCHANGED <<fileNameToPreId, widthVars, invalidVars, gridVars>>

LoopNext ==
  \/ \E b \in BaseNames : GenerateEnter(b)
  \/ GenerateStep
  \/ GenerateReturn
  \/ \E b \in BaseNames, u \in UUIDs : UUIDEnter(b, u)
  \/ UUIDStep
  \/ UUIDReturn

(***************************************************************************)
(* Claims about UniqueFileName.                                            *)
(***************************************************************************)
\* C1: over any sequence of generate and generateWithUUID calls on one instance,
\* with any base names, the returned names are pairwise distinct, and each returned
\* name is in usedNames when its call returns.
C1_ReturnedNamesDistinct ==
  /\ \A i, j \in 1..Len(calls) : i # j => calls[i].result # calls[j].result
  /\ \A i \in 1..Len(calls) : calls[i].result \in usedNames
  /\ Len(calls) > 0 => calls[Len(calls)].result \notin calls[Len(calls)].usedBefore

\* C1's case: a base that looks like a suffixed name was issued first, the plain base
\* then collided twice, and a UUID name was issued in the same run
C1_Witness ==
  /\ Len(calls) = 3
  /\ calls[1].op = "generate" /\ calls[1].origin = <<"u", "-", "1", ".", "t", "x", "t">>
  /\ calls[2].op = "generateWithUUID" /\ calls[2].result = <<"u", ".", "t", "x", "t">>
  /\ calls[3].op = "generateWithUUID"
  /\ calls[3].result = <<"u", "-", "2", ".", "t", "x", "t">>

\* the extension of the claim: b from its last '.' on, empty when b has no '.'
C6_Ext(b) ==
  LET k == CHOOSE k \in 0..Len(b) :
             \/ k = Len(b) /\ \A i \in 1..Len(b) : b[i] # "."
             \/ k < Len(b) /\ b[k + 1] = "." /\ \A i \in (k + 2)..Len(b) : b[i] # "."
  IN SubSeq(b, k + 1, Len(b))

C6_Stem(b) == SubSeq(b, 1, Len(b) - Len(C6_Ext(b)))

\* C6: on a fresh instance on which only generate(b) is called, for one base name b,
\* the first call returns b and the k-th call (k >= 2) returns stem-(k-1)ext;
\* "a.txt", "a-1.txt", "a-2.txt" and "README", "README-1".
C6_SameBaseSequence ==
  (\A i \in 1..Len(calls) : calls[i].op = "generate" /\ calls[i].origin = calls[1].origin)
    => /\ \A k \in 1..Len(calls) :
            calls[k].result =
              IF k = 1 THEN calls[1].origin
              ELSE C6_Stem(calls[1].origin) \o <<"-">> \o NatToString(k - 1)
                     \o C6_Ext(calls[1].origin)
       /\ (Len(calls) >= 3 /\ calls[1].origin = <<"a", ".", "t", "x", "t">>)
            => /\ calls[1].result = <<"a", ".", "t", "x", "t">>
               /\ calls[2].result = <<"a", "-", "1", ".", "t", "x", "t">>
               /\ calls[3].result = <<"a", "-", "2", ".", "t", "x", "t">>
       /\ (Len(calls) >= 2 /\ calls[1].origin = <<"R", "E", "A", "D", "M", "E">>)
            => /\ calls[1].result = <<"R", "E", "A", "D", "M", "E">>
               /\ calls[2].result = <<"R", "E", "A", "D", "M", "E", "-", "1">>

\* C6's case: generate("a.txt") was called three times in a row on a fresh instance
C6_Witness ==
  /\ Len(calls) = 3
  /\ \A i \in 1..3 : calls[i].op = "generate" /\ calls[i].origin = <<"a", ".", "t", "x", "t">>

\* the name generate forms from base b and suffix k
C10_Name(b, k) == C6_Stem(b) \o <<"-">> \o NatToString(k) \o C6_Ext(b)

\* C10: for every base name b with counter c >= 1, every name stem(b)-k ext(b) with
\* 1 <= k <= c is in usedNames; so a generate(b) that collides returns the name with
\* the least positive suffix n unused at the time of the call, the counter of b is n
\* afterwards, and no counter ever decreases.
C10_CounterPrefixUsed ==
  /\ \A b \in DOMAIN fileNameToPreId :
       \A k \in 1..fileNameToPreId[b] : C10_Name(b, k) \in usedNames
  /\ \A i \in 1..Len(calls) :
       LET c == calls[i] IN
       /\ \A b \in DOMAIN c.mapBefore :
            b \in DOMAIN c.mapAfter /\ c.mapAfter[b] >= c.mapBefore[b]
       /\ (c.op = "generate" /\ c.result # c.origin)
            => /\ c.origin \in DOMAIN c.mapAfter
               /\ c.result = C10_Name(c.origin, c.mapAfter[c.origin])
               /\ c.result \notin c.usedBefore
               /\ \A k \in 1..(c.mapAfter[c.origin] - 1) :
                    C10_Name(c.origin, k) \in c.usedBefore
  /\ Len(calls) > 0 => calls[Len(calls)].mapAfter = fileNameToPreId

\* C10's case: generate("a.txt") collided with "a.txt" and with an "a-1.txt" that
\* another base name had taken, and returned "a-2.txt" with the counter at 2
C10_Witness ==
  /\ Len(calls) = 3
  /\ calls[3].op = "generate" /\ calls[3].origin = <<"a", ".", "t", "x", "t">>
  /\ calls[3].result = <<"a", "-", "2", ".", "t", "x", "t">>
  /\ <<"a", "-", "1", ".", "t", "x", "t">> \in {calls[1].origin, calls[2].origin}
  /\ fileNameToPreId[<<"a", ".", "t", "x", "t">>] = 2

\* C8: every call of generate and of generateWithUUID that has entered, in any
\* reachable state of the instance, returns: its loop reaches a candidate that is
\* not in usedNames.
C8_EveryCallReturns == (frame # Idle) ~> (frame = Idle)

\* C8's case: a call whose loop has already run once meets a second collision
C8_Witness ==
  \/ /\ frame.op = "generate"
     /\ frame.newFileName # frame.originFileName
     /\ frame.newFileName \in usedNames
  \/ /\ frame.op = "generateWithUUID"
     /\ frame.counter = 2
     /\ frame.finalFileName \in usedNames

(***************************************************************************)
(* Numbers and their text.  A number is a decimal, (-1)^neg * mant /       *)
(* 10^frac, or NaN; its arithmetic is exact (the binary rounding of        *)
(* numeric * 100 is not modelled).                                         *)
(***************************************************************************)
Digits == {"0", "1", "2", "3", "4", "5", "6", "7", "8", "9"}

\* /[a-z]/i
Letters ==
  {"a", "b", "c", "d", "e", "f", "g", "h", "i", "j", "k", "l", "m", "n", "o", "p", "q",
   "r", "s", "t", "u", "v", "w", "x", "y", "z", "A", "B", "C", "D", "E", "F", "G", "H",
   "I", "J", "K", "L", "M", "N", "O", "P", "Q", "R", "S", "T", "U", "V", "W", "X", "Y",
   "Z"}

\* StrWhiteSpaceChar, as far as the inputs go
WhiteSpace == {" "}

DigitValue(ch) ==
  CASE ch = "0" -> 0 [] ch = "1" -> 1 [] ch = "2" -> 2 [] ch = "3" -> 3 [] ch = "4" -> 4
    [] ch = "5" -> 5 [] ch = "6" -> 6 [] ch = "7" -> 7 [] ch = "8" -> 8 [] ch = "9" -> 9

RECURSIVE Pow10(_)
Pow10(k) == IF k = 0 THEN 1 ELSE 10 * Pow10(k - 1)

RECURSIVE DigitsValue(_)
\* the natural number a sequence of digits writes (0 for no digit)
DigitsValue(ds) ==
  IF ds = <<>> THEN 0
  ELSE 10 * DigitsValue(SubSeq(ds, 1, Len(ds) - 1)) + DigitValue(ds[Len(ds)])

RECURSIVE TrimStart(_)
TrimStart(s) == IF s # <<>> /\ s[1] \in WhiteSpace THEN TrimStart(Tail(s)) ELSE s

RECURSIVE TrimEnd(_)
TrimEnd(s) ==
  IF s # <<>> /\ s[Len(s)] \in WhiteSpace THEN TrimEnd(SubSeq(s, 1, Len(s) - 1)) ELSE s

NaN == [nan |-> TRUE, neg |-> FALSE, mant |-> 0, frac |-> 0]

\* Number(value) of a string (StringToNumber): white space trimmed, '' is 0, an
\* optional sign, then digits with at most one '.', at least one digit; anything
\* else is NaN.  (Exponents, hex and Infinity hold a letter.)
StringToNumber(value) ==
  LET t == TrimEnd(TrimStart(value))
      signed == t # <<>> /\ t[1] \in {"+", "-"}
      body == IF signed THEN Tail(t) ELSE t
      dots == {i \in 1..Len(body) : body[i] = "."}
      dot == IF dots = {} THEN Len(body) + 1 ELSE CHOOSE i \in dots : TRUE
      ds == SelectSeq(body, LAMBDA ch : ch \in Digits)
  IN IF t = <<>> THEN [nan |-> FALSE, neg |-> FALSE, mant |-> 0, frac |-> 0]
     ELSE IF /\ \A i \in 1..Len(body) : body[i] \in Digits \cup {"."}
             /\ Cardinality(dots) <= 1
             /\ ds # <<>>
            THEN [nan |-> FALSE, neg |-> signed /\ t[1] = "-",
                  mant |-> DigitsValue(ds), frac |-> Len(body) + 1 - dot - Cardinality(dots)]
            ELSE NaN

\* Number.isFinite(numeric): a decimal of the lengths modelled never overflows
IsFinite(numeric) == ~numeric.nan

\* a faulty variant: numeric < 1
IsLessOrEqualOne_Strict(numeric) ==
  \/ numeric.neg /\ numeric.mant # 0
  \/ numeric.mant < Pow10(numeric.frac)

\* numeric <= 1
IsLessOrEqualOne(numeric) ==
  \/ numeric.neg
  \/ numeric.mant <= Pow10(numeric.frac)

\* numeric * 100
Times100(numeric) == [numeric EXCEPT !.mant = numeric.mant * 100]

RECURSIVE StripZeros(_)
\* a decimal without trailing zeros in its fraction
StripZeros(numeric) ==
  IF numeric.frac > 0 /\ numeric.mant % 10 = 0
    THEN StripZeros([numeric EXCEPT !.mant = numeric.mant \div 10, !.frac = numeric.frac - 1])
    ELSE numeric

RECURSIVE PadDigits(_, _)
\* the digits of n, padded with zeros on the left to width w
PadDigits(n, w) ==
  IF w = 0 THEN <<>> ELSE PadDigits(n \div 10, w - 1) \o <<DigitChar(n % 10)>>

\* String(numeric) of a finite number in the range written without an exponent:
\* a sign unless zero, the integer digits, and the fraction without trailing zeros
NumberToString(numeric) ==
  LET n == StripZeros(numeric)
      whole == n.mant \div Pow10(n.frac)
      part == n.mant % Pow10(n.frac)
  IN (IF n.neg /\ n.mant # 0 THEN <<"-">> ELSE <<>>)
       \o NatToString(whole)
       \o (IF n.frac = 0 THEN <<>> ELSE <<".">> \o PadDigits(part, n.frac))

\* value.includes(ch)
Includes(value, ch) == \E i \in 1..Len(value) : value[i] = ch

\* /[a-z]/i.test(value)
HasLetter(value) == \E i \in 1..Len(value) : value[i] \in Letters

\* normalizeWidthValue(value)
normalizeWidthValue(value) ==
  IF Includes(value, "%") \/ HasLetter(value) THEN value
  ELSE LET numeric == StringToNumber(value)
       IN IF ~IsFinite(numeric) THEN value
          ELSE IF IsLessOrEqualOne(numeric)
                 THEN NumberToString(Times100(numeric)) \o <<"%">>
                 ELSE NumberToString(numeric) \o <<"p", "x">>

(***************************************************************************)
(* normalizeWidthValue on its own: a width's text in, its CSS length out.  *)
(***************************************************************************)
\* the length of a width's text
MaxWidthLen == 4

WidthChars == {"0", "1", "3", "5", ".", "-", "%", "a", "$"}

SeqsUpTo(S, n) == UNION {[1..k -> S] : k \in 0..n}

WidthInputs ==
  SeqsUpTo(WidthChars, MaxWidthLen)
    \cup { <<"a", "u", "t", "o">>, <<" ", "5", " ">>, <<"+", ".", "5">>, <<" ">>,
           <<"0", ".", "2", "5">>, <<"Z", "9">>, <<"1", ".", "0", "0", "0">>,
           <<"0", "0", "3", "0", "0">> }

\* one call normalizeWidthValue(wIn)
NormalizeWidth ==
  /\ ~wOut.done
  /\ wOut' = [done |-> TRUE, value |-> normalizeWidthValue(wIn)]
  /\ UNCHANGED <<wIn, nameVars, invalidVars, gridVars>>

WidthNext == NormalizeWidth

\* two decimals of the same value
C7_SameValue(a, b) ==
  /\ ~a.nan /\ ~b.nan
  /\ a.mant * Pow10(b.frac) = b.mant * Pow10(a.frac)
  /\ a.mant = 0 \/ a.neg = b.neg

\* text ends with suffix, and what precedes it is a number of value n
C7_IsValueWithUnit(text, n, suffix) ==
  /\ Len(text) > Len(suffix)
  /\ SubSeq(text, Len(text) - Len(suffix) + 1, Len(text)) = suffix
  /\ C7_SameValue(StringToNumber(SubSeq(text, 1, Len(text) - Len(suffix))), n)

MaxChildren == 2
\* the number of invalid-table records of one call
MaxRecords == 2

Absent == [present |-> FALSE, v |-> <<>>]
Present(v) == [present |-> TRUE, v |-> v]

\* a table cell: its children, and data?.invalidChildren (data itself may be absent)
Cell(children, hasData, invalidChildren) ==
  [type |-> "tableCell", children |-> children, hasData |-> hasData,
   invalidChildren |-> invalidChildren]

CellKinds ==
  { Cell(<<"c">>, FALSE, Absent),
    Cell(<<"c">>, TRUE, Absent),
    Cell(<<"c">>, TRUE, Present(<<"i", "j">>)),
    Cell(<<"c">>, TRUE, Present(<<>>)) }

Row(cells) == [type |-> "tableRow", children |-> cells]

Table(rows) == [type |-> "table", children |-> rows]

\* the heap of one call: parents 1 and 2, invalid tables 3 and 4, a paragraph 5
InvalidHeaps ==
  { (1 :> [type |-> "root", children |-> c1])
      @@ (2 :> [type |-> "blockquote", children |-> c2])
      @@ (3 :> Table(<<Row(<<k, Cell(<<"d">>, TRUE, Present(<<"x">>))>>)>>))
      @@ (4 :> Table(<<Row(<<Cell(<<"e">>, FALSE, Absent)>>),
                       Row(<<Cell(<<"f">>, TRUE, Present(<<"y">>))>>)>>))
      @@ (5 :> [type |-> "paragraph"]) :
    c1 \in SeqsUpTo({3, 4, 5}, MaxChildren),
    c2 \in {<<>>, <<3>>, <<4>>, <<5>>},
    k \in CellKinds }

\* an InvalidTable record: parent (optional) and inner
InvalidRecords ==
  [hasParent : {TRUE}, parent : {1, 2}, inner : {3, 4}]
    \cup [hasParent : {FALSE}, parent : {0}, inner : {3, 4}]

\* Array.prototype.findIndex(child => child === inner): 0-based, -1 if absent
FindIndex(children, inner) ==
  LET hits == {i \in 1..Len(children) : children[i] = inner}
  IN IF hits = {} THEN -1 ELSE (CHOOSE i \in hits : \A j \in hits : i <= j) - 1

\* invalidTable.parent?.children.findIndex(...): undefined when parent is missing
InvalidTableIndex(heap, invalidTable) ==
  IF invalidTable.hasParent
    THEN [defined |-> TRUE,
          index |-> FindIndex(heap[invalidTable.parent].children, invalidTable.inner)]
    ELSE [defined |-> FALSE, index |-> 0]

\* a faulty variant: the test against -1 left out
IsFound_NoMinusOne(invalidTableIndex) == invalidTableIndex.defined

\* invalidTableIndex !== undefined && invalidTableIndex !== -1
IsFound(invalidTableIndex) ==
  invalidTableIndex.defined /\ invalidTableIndex.index # -1

\* Array.prototype.splice(start, 1, item): a negative start counts from the end
Splice1(children, start, item) ==
  LET len == Len(children)
      from == IF start < 0 THEN (IF len + start < 0 THEN 0 ELSE len + start)
              ELSE (IF start > len THEN len ELSE start)
  IN SubSeq(children, 1, from) \o <<item>> \o SubSeq(children, from + 2, len)

\* a faulty variant: invalidChildren ignored
DerivedCellChildren_Own(cell) == cell.children

\* cell.data?.invalidChildren ?? cell.children
DerivedCellChildren(cell) ==
  IF cell.hasData /\ cell.invalidChildren.present
    THEN cell.invalidChildren.v
    ELSE cell.children

\* { ...inner, children: inner.children.map(row => ({ ...row, children:
\*   row.children.map(cell => ({ ...cell, children: ... })) })) }
DerivedTable(inner) ==
  [inner EXCEPT !.children =
     [r \in 1..Len(inner.children) |->
        [inner.children[r] EXCEPT !.children =
           [c \in 1..Len(inner.children[r].children) |->
              [inner.children[r].children[c] EXCEPT
                 !.children = DerivedCellChildren(inner.children[r].children[c])]]]]]

\* the id of a node created now
NewId(heap) == (CHOOSE i \in DOMAIN heap : \A j \in DOMAIN heap : j <= i) + 1

\* the body of the forEach callback for one record: the heap after it
InvalidTableStep(heap, invalidTable) ==
  LET invalidTableIndex == InvalidTableIndex(heap, invalidTable)
  IN IF IsFound(invalidTableIndex)
       THEN LET html == NewId(heap)
                parent == heap[invalidTable.parent]
            IN [heap EXCEPT ![invalidTable.parent] =
                  [parent EXCEPT !.children =
                     Splice1(parent.children, invalidTableIndex.index, html)]]
                 @@ (html :> [type |-> "html",
                              value |-> DerivedTable(heap[invalidTable.inner])])
       ELSE heap

RECURSIVE ForEachInvalidTable(_, _, _)
\* invalidTables.forEach(...): the heaps before the first record and after each
ForEachInvalidTable(heaps, invalidTables, k) ==
  IF k > Len(invalidTables) THEN heaps
  ELSE ForEachInvalidTable(
         Append(heaps, InvalidTableStep(heaps[Len(heaps)], invalidTables[k])),
         invalidTables, k + 1)

\* transformInvalidTablesToHtml(itRecords), the whole call
TransformInvalidTablesToHtml ==
  /\ ~itDone
  /\ itHeaps' = ForEachInvalidTable(itHeaps, itRecords, 1)
  /\ itDone' = TRUE
  /\ UNCHANGED <<itRecords, nameVars, widthVars, gridVars>>

InvalidNext == TransformInvalidTablesToHtml

\* the positions of a parent's children that hold inner
C4_Positions(children, inner) == {i \in 1..Len(children) : children[i] = inner}

\* the table the claim says is serialized: every cell's children are its
\* invalidChildren when present, its own children otherwise; all else as in inner
C4_IsDerivedCopy(derived, inner) ==
  /\ derived.type = inner.type
  /\ Len(derived.children) = Len(inner.children)
  /\ \A r \in 1..Len(inner.children) :
       LET row == inner.children[r]
           drow == derived.children[r]
       IN /\ drow.type = row.type
          /\ Len(drow.children) = Len(row.children)
          /\ \A c \in 1..Len(row.children) :
               LET cell == row.children[c]
                   dcell == drow.children[c]
               IN /\ dcell.type = cell.type
                  /\ dcell.hasData = cell.hasData
                  /\ dcell.invalidChildren = cell.invalidChildren
                  /\ (cell.hasData /\ cell.invalidChildren.present)
                       => dcell.children = cell.invalidChildren.v
                  /\ ~(cell.hasData /\ cell.invalidChildren.present)
                       => dcell.children = cell.children

\* C4: for every record whose inner is found by identity in parent.children, exactly
\* the first position holding inner is replaced by one html node (same length, every
\* other position unchanged), the html node's table is the derived copy of inner
\* (cell children = invalidChildren when present, own children otherwise), and
\* inner, its rows and its cells are not mutated.
C4_FoundInnerReplaced ==
  itDone =>
    /\ Len(itHeaps) = Len(itRecords) + 1
    /\ \A k \in 1..Len(itRecords) :
         LET rec == itRecords[k]
             before == itHeaps[k]
             after == itHeaps[k + 1]
         IN (rec.hasParent /\ C4_Positions(before[rec.parent].children, rec.inner) # {})
              => LET old == before[rec.parent].children
                     new == after[rec.parent].children
                     first == CHOOSE i \in C4_Positions(old, rec.inner) :
                                \A j \in C4_Positions(old, rec.inner) : i <= j
                 IN /\ Len(new) = Len(old)
                    /\ \A i \in 1..Len(old) : i # first => new[i] = old[i]
                    /\ new[first] \notin DOMAIN before
                    /\ new[first] \in DOMAIN after
                    /\ after[new[first]].type = "html"
                    /\ C4_IsDerivedCopy(after[new[first]].value, before[rec.inner])
                    /\ DOMAIN after = DOMAIN before \cup {new[first]}
                    /\ \A n \in DOMAIN before : n # rec.parent => after[n] = before[n]
                    /\ after[rec.parent].type = before[rec.parent].type

\* C4's case: inner is held twice by its parent, a cell of it carries invalidChildren,
\* and the record's step replaced the first of the two positions
C4_Witness ==
  /\ itDone
  /\ \E k \in 1..Len(itRecords) :
       LET rec == itRecords[k]
       IN /\ rec.hasParent /\ rec.inner = 3
          /\ itHeaps[k][rec.parent].children = <<3, 3>>
          /\ itHeaps[k + 1][rec.parent].children[2] = 3
          /\ itHeaps[k + 1][itHeaps[k + 1][rec.parent].children[1]].type = "html"
          /\ itHeaps[k][3].children[1].children[1].invalidChildren.present

\* C5: a record whose inner is not in parent.children (never there, or replaced by an
\* earlier record), or whose parent is missing, raises no error and leaves the
\* parent's children (and every node) as they were, and the records after it are
\* still processed.
C5_NotFoundSkipped ==
  itDone =>
    /\ Len(itHeaps) = Len(itRecords) + 1
    /\ \A k \in 1..Len(itRecords) :
         LET rec == itRecords[k]
         IN (~rec.hasParent
               \/ \A i \in 1..Len(itHeaps[k][rec.parent].children) :
                    itHeaps[k][rec.parent].children[i] # rec.inner)
              => itHeaps[k + 1] = itHeaps[k]

\* C5's case: a record replaced inner, the next record names the same inner and
\* parent and was skipped; or a record without parent was skipped and the next
\* record replaced its inner
C5_Witness ==
  /\ itDone
  /\ Len(itRecords) = 2
  /\ \/ /\ itRecords[1] = itRecords[2]
        /\ itRecords[1].hasParent
        /\ itHeaps[2] # itHeaps[1]
        /\ itHeaps[3] = itHeaps[2]
     \/ /\ ~itRecords[1].hasParent
        /\ itHeaps[2] = itHeaps[1]
        /\ itHeaps[3] # itHeaps[2]

(***************************************************************************)
(* transformGridToHtml.  The document is a heap, id -> node, the root at   *)
(* id 1.  A node has type, data?.type (dataType, "none" when absent) and   *)
(* its children field: ck says what the field holds ("array", "absent",    *)
(* "null", or "object" for some other non-array value) and children the    *)
(* ids when it is an array.  Of a grid table the code reads the number of  *)
(* rows and the number of cells of the first row only: rows gives the      *)
(* number of cells of each row.  toHast and toHtml are the library's:      *)
(* hast names the tree toHast returns for the table, and the html node's   *)
(* value is the presentational tree handed to toHtml.                      *)
(***************************************************************************)
\* the number of nodes added to a base document
MaxNodes == 2
\* the number of cells of a row of a grid table; colWidths has up to one more
MaxCols == 2
\* the number of rows of a grid table
MaxRows == 2

HElem(tagName, children) ==
  [type |-> "element", tagName |-> tagName, hasChildren |-> TRUE,
   children |-> children, style |-> <<>>]

HText == [type |-> "text", tagName |-> "", hasChildren |-> FALSE,
          children |-> <<>>, style |-> <<>>]

\* a row of n cells, as the library's table handler renders it
HRow(n, cellTag) == HElem("tr", [c \in 1..n |-> HElem(cellTag, <<>>)])

\* the table element the library's table handler returns: the first row in a
\* thead, the others in a tbody
HTable(rows) ==
  HElem("table",
        (IF Len(rows) > 0 THEN <<HElem("thead", <<HRow(rows[1], "th")>>)>> ELSE <<>>)
          \o (IF Len(rows) > 1
                THEN <<HElem("tbody", [r \in 1..(Len(rows) - 1) |-> HRow(rows[r + 1], "td")])>>
                ELSE <<>>))

\* what toHast may return for a table: the table element itself, a tree that holds
\* it below other nodes and before a second table, or a tree without any
HastShapes == {"table", "nested", "none", "text"}

\* toHast(child, options)
ToHast(table) ==
  CASE table.hast = "table" -> HTable(table.rows)
    [] table.hast = "nested" ->
         [type |-> "root", tagName |-> "", hasChildren |-> TRUE, style |-> <<>>,
          children |-> <<HText,
                         HElem("div", <<HElem("span", <<>>), HTable(table.rows)>>),
                         HElem("table", <<>>)>>]
    [] table.hast = "none" -> HElem("div", <<HText>>)
    [] table.hast = "text" -> HText

NotFound == [found |-> FALSE, path |-> <<>>]

RECURSIVE FindTableElement(_)
RECURSIVE FindTableElementIn(_, _)
\* findTableElement(node): the place of the element found, as the child indexes
\* that lead to it from node
FindTableElement(node) ==
  IF node.type = "element" /\ node.tagName = "table" THEN [found |-> TRUE, path |-> <<>>]
  ELSE IF ~node.hasChildren THEN NotFound
  ELSE FindTableElementIn(node, 1)

\* the for loop of findTableElement, from child i on
FindTableElementIn(node, i) ==
  IF i > Len(node.children) THEN NotFound
  ELSE LET found == FindTableElement(node.children[i])
       IN IF found.found THEN [found |-> TRUE, path |-> <<i>> \o found.path]
          ELSE FindTableElementIn(node, i + 1)

\* String(value) of a colWidths entry
StringOfNumber(value) == IF value.nan THEN <<"N", "a", "N">> ELSE NumberToString(value)

\* a faulty variant: the column count not compared
ExtractColumnWidths_NoCount(table) ==
  IF ~table.colWidths.present \/ Len(table.colWidths.v) = 0 THEN Absent
  ELSE IF Len(table.rows) = 0 THEN Absent
  ELSE Present([i \in 1..Len(table.colWidths.v) |->
                  normalizeWidthValue(StringOfNumber(table.colWidths.v[i]))])

\* extractColumnWidths(table): null is Absent
ExtractColumnWidths(table) ==
  IF ~table.colWidths.present \/ Len(table.colWidths.v) = 0 THEN Absent
  ELSE IF Len(table.rows) = 0 THEN Absent
  ELSE LET columnCount == table.rows[1]
       IN IF Len(table.colWidths.v) # columnCount THEN Absent
          ELSE Present([i \in 1..Len(table.colWidths.v) |->
                          normalizeWidthValue(StringOfNumber(table.colWidths.v[i]))])

\* the colgroup element built from the normalized widths
Colgroup(colWidths) ==
  [type |-> "element", tagName |-> "colgroup", hasChildren |-> TRUE, style |-> <<>>,
   children |-> [i \in 1..Len(colWidths) |->
                   [type |-> "element", tagName |-> "col", hasChildren |-> TRUE,
                    children |-> <<>>,
                    style |-> <<"w", "i", "d", "t", "h", ":", " ">> \o colWidths[i]]]]

RECURSIVE PrependChildAt(_, _, _)
\* tableElement.children = [colgroup, ...(tableElement.children ?? [])], for the
\* element at path
PrependChildAt(hast, path, item) ==
  IF path = <<>>
    THEN [hast EXCEPT !.hasChildren = TRUE,
                      !.children = <<item>> \o (IF hast.hasChildren THEN hast.children
                                                ELSE <<>>)]
    ELSE [hast EXCEPT !.children[path[1]] =
            PrependChildAt(hast.children[path[1]], Tail(path), item)]

\* the tree handed to toHtml for a grid table
GridTableHast(child) ==
  LET colWidths == ExtractColumnWidths(child)
      hast == ToHast(child)
      tableElement == FindTableElement(hast)
  IN IF tableElement.found /\ colWidths.present
       THEN PrependChildAt(hast, tableElement.path, Colgroup(colWidths.v))
       ELSE hast

\* a faulty variant: data.type not looked at
IsGridTable_AnyTable(child) == child.type = "table"

\* child.type === 'table' && tableType === 'grid'
IsGridTable(child) == child.type = "table" /\ child.dataType = "grid"

\* a faulty variant: Array.isArray left out
isParent_HasChildren(node) == node.ck # "absent"

\* 'children' in node && Array.isArray(node.children)
isParent(node) == node.ck # "absent" /\ node.ck = "array"

HtmlNode(value) ==
  [type |-> "html", dataType |-> "none", ck |-> "absent", children |-> <<>>,
   value |-> value]

RECURSIVE Visit(_, _)
RECURSIVE VisitFrom(_, _, _)
\* visit(node) on the state st = [heap, err]: err is a TypeError thrown by reading
\* .length of a children that is undefined or null; a non-array object has no
\* length, and the loop runs no iteration
Visit(st, node) ==
  IF st.heap[node].ck \in {"absent", "null"} THEN [st EXCEPT !.err = TRUE]
  ELSE IF st.heap[node].ck = "object" THEN st
  ELSE VisitFrom(st, node, 0)

\* the for loop of visit(node), from index on
VisitFrom(st, node, index) ==
  IF st.err \/ index >= Len(st.heap[node].children) THEN st
  ELSE LET child == st.heap[node].children[index + 1]
       IN IF IsGridTable(st.heap[child])
            THEN LET html == NewId(st.heap)
                     heap == [st.heap EXCEPT ![node].children =
                                Splice1(st.heap[node].children, index, html)]
                               @@ (html :> HtmlNode(GridTableHast(st.heap[child])))
                 IN VisitFrom([st EXCEPT !.heap = heap], node, index + 1)
            ELSE IF isParent(st.heap[child])
                   THEN VisitFrom(Visit(st, child), node, index + 1)
                   ELSE VisitFrom(st, node, index + 1)

(***************************************************************************)
(* The documents transformGridToHtml is run on.                            *)
(***************************************************************************)
Node(type, dataType, ck) ==
  [type |-> type, dataType |-> dataType, ck |-> ck, children |-> <<>>,
   colWidths |-> Absent, rows |-> <<>>, hast |-> "table"]

GridTable(colWidths, rows, hast) ==
  [type |-> "table", dataType |-> "grid", ck |-> "array", children |-> <<>>,
   colWidths |-> colWidths, rows |-> rows, hast |-> hast]

Half == [nan |-> FALSE, neg |-> FALSE, mant |-> 5, frac |-> 1]
ThreeHundred == [nan |-> FALSE, neg |-> FALSE, mant |-> 300, frac |-> 0]

\* what a container other than a table or a row may hold
FlowKinds ==
  { Node("text", "none", "absent"),
    Node("blockquote", "none", "array"),
    Node("blockquote", "grid", "array"),
    Node("table", "none", "array"),
    Node("custom", "none", "null"),
    Node("custom", "none", "object"),
    GridTable(Present(<<Half, Half>>), <<2>>, "table"),
    GridTable(Present(<<Half, ThreeHundred, Half>>), <<2, 2>>, "nested") }

KindsUnder(parent) ==
  IF parent.type = "table" THEN {Node("tableRow", "none", "array")}
  ELSE IF parent.type = "tableRow" THEN {Node("tableCell", "none", "array")}
  ELSE FlowKinds

AddChild(heap, parent, node) ==
  LET id == NewId(heap)
  IN [heap EXCEPT ![parent].children = Append(heap[parent].children, id)] @@ (id :> node)

\* the documents to start from: an empty root, a root holding a plain table of one
\* cell, and roots whose own children is not an array
BaseHeaps ==
  { (1 :> Node("root", "none", "array")),
    (1 :> [Node("root", "none", "array") EXCEPT !.children = <<2>>])
      @@ (2 :> [Node("table", "none", "array") EXCEPT !.children = <<3>>])
      @@ (3 :> [Node("tableRow", "none", "array") EXCEPT !.children = <<4>>])
      @@ (4 :> Node("tableCell", "none", "array")),
    (1 :> Node("root", "none", "absent")),
    (1 :> Node("root", "none", "null")),
    (1 :> Node("root", "none", "object")) }

RECURSIVE TreeHeaps(_)
\* the base documents with up to n nodes added, each as the last child of a
\* container that is not a grid table
TreeHeaps(n) ==
  IF n = 0 THEN BaseHeaps
  ELSE LET smaller == TreeHeaps(n - 1)
       IN smaller \cup
            { AddChild(h, p, k) :
                <<h, p, k>> \in
                  UNION { UNION { { <<h, p, k>> : k \in KindsUnder(h[p]) } :
                                  p \in {q \in DOMAIN h :
                                           h[q].ck = "array" /\ ~(h[q].type = "table"
                                                                  /\ h[q].dataType = "grid")} } :
                          h \in smaller } }

\* a root that holds one grid table, of every colWidths, rows and toHast tree
ColumnHeaps ==
  { (1 :> [Node("root", "none", "array") EXCEPT !.children = <<2>>])
      @@ (2 :> GridTable(w, r, t)) :
    w \in {Absent} \cup {Present(v) : v \in SeqsUpTo({Half, ThreeHundred, NaN}, MaxCols + 1)},
    r \in SeqsUpTo(0..MaxCols, MaxRows),
    t \in HastShapes }

\* transformGridToHtml(root), the whole call
TransformGridToHtml ==
  /\ ~gDone
  /\ gAfter' = Visit([heap |-> gBefore, err |-> FALSE], 1)
  /\ gDone' = TRUE
  /\ UNCHANGED <<gBefore, nameVars, widthVars, invalidVars>>

GridNext == TransformGridToHtml

(***************************************************************************)
(* Claims about transformGridToHtml.                                       *)
(***************************************************************************)
\* a node visit may descend into: its children is an array and it is no grid table
C2_IsContainer(node) ==
  node.ck = "array" /\ ~(node.type = "table" /\ node.dataType = "grid")

RECURSIVE C2_Closure(_, _)
C2_Closure(heap, reached) ==
  LET more == reached \cup
                {c \in DOMAIN heap :
                   /\ C2_IsContainer(heap[c])
                   /\ \E n \in reached : \E i \in 1..Len(heap[n].children) :
                        heap[n].children[i] = c}
  IN IF more = reached THEN reached ELSE C2_Closure(heap, more)

\* the root and the containers reached from it through children that are not grid
\* tables
C2_Reached(heap) == C2_Closure(heap, {1})

\* the places <<container, position>> of the grid tables the traversal meets
C2_GridPlaces(heap) ==
  {pl \in C2_Reached(heap) \X (1..Cardinality(DOMAIN heap)) :
     /\ pl[2] <= Len(heap[pl[1]].children)
     /\ heap[heap[pl[1]].children[pl[2]]].type = "table"
     /\ heap[heap[pl[1]].children[pl[2]]].dataType = "grid"}

\* C2: after transformGridToHtml(root), for the root and every container reached
\* through children that are not grid tables, the child sequence has the length it
\* had; each position that held a grid table holds one new html node, every other
\* position holds the node it held; without grid tables nothing is replaced.
C2_OnlyGridTablesReplaced ==
  (gDone /\ gBefore[1].ck = "array") =>
    /\ ~gAfter.err
    /\ \A n \in C2_Reached(gBefore) :
         LET old == gBefore[n].children
             new == gAfter.heap[n].children
         IN /\ Len(new) = Len(old)
            /\ \A i \in 1..Len(old) :
                 IF gBefore[old[i]].type = "table" /\ gBefore[old[i]].dataType = "grid"
                   THEN /\ new[i] \notin DOMAIN gBefore
                        /\ new[i] \in DOMAIN gAfter.heap
                        /\ gAfter.heap[new[i]].type = "html"
                   ELSE new[i] = old[i]
    /\ \A n \in DOMAIN gBefore :
         /\ n \in DOMAIN gAfter.heap
         /\ gAfter.heap[n] = [gBefore[n] EXCEPT !.children = gAfter.heap[n].children]
         /\ n \notin C2_Reached(gBefore) => gAfter.heap[n] = gBefore[n]
    /\ Cardinality(DOMAIN gAfter.heap \ DOMAIN gBefore) = Cardinality(C2_GridPlaces(gBefore))
    /\ \A pl \in C2_GridPlaces(gBefore), pm \in C2_GridPlaces(gBefore) :
         pl # pm => gAfter.heap[pl[1]].children[pl[2]] # gAfter.heap[pm[1]].children[pm[2]]
    /\ C2_GridPlaces(gBefore) = {} => gAfter.heap = gBefore

\* C2's case: a grid table in the cell of a plain table was replaced by an html
\* node; the plain table, its row and cell and the root's other child stayed
C2_Witness ==
  /\ gDone
  /\ gBefore[1].children = <<2, 5>>
  /\ gBefore[2].type = "table" /\ gBefore[2].dataType = "none"
  /\ gBefore[3].type = "tableRow"
  /\ gBefore[4].type = "tableCell" /\ gBefore[4].children = <<6>>
  /\ gBefore[6].type = "table" /\ gBefore[6].dataType = "grid"
  /\ gBefore[5].type = "text"
  /\ gAfter.heap[1].children = <<2, 5>>
  /\ gAfter.heap[2].children = <<3>> /\ gAfter.heap[3].children = <<4>>
  /\ gAfter.heap[4].children # <<6>>
  /\ gAfter.heap[gAfter.heap[4].children[1]].type = "html"

RECURSIVE C3_Count(_, _)
RECURSIVE C3_CountIn(_, _, _)
\* the number of elements of tag tagName in a presentational tree
C3_Count(tree, tagName) ==
  (IF tree.type = "element" /\ tree.tagName = tagName THEN 1 ELSE 0)
    + C3_CountIn(tree.children, tagName, 1)

C3_CountIn(children, tagName, i) ==
  IF i > Len(children) THEN 0
  ELSE C3_Count(children[i], tagName) + C3_CountIn(children, tagName, i + 1)

RECURSIVE C3_TablePaths(_)
\* the places of the table elements of a presentational tree
C3_TablePaths(tree) ==
  (IF tree.type = "element" /\ tree.tagName = "table" THEN {<<>>} ELSE {})
    \cup UNION { { <<i>> \o p : p \in C3_TablePaths(tree.children[i]) } :
                 i \in 1..Len(tree.children) }

\* place p comes before place q in document order
C3_Before(p, q) ==
  \/ Len(p) < Len(q) /\ SubSeq(q, 1, Len(p)) = p
  \/ \E k \in 1..Len(p) :
       /\ k <= Len(q)
       /\ SubSeq(p, 1, k - 1) = SubSeq(q, 1, k - 1)
       /\ p[k] < q[k]

RECURSIVE C3_At(_, _)
C3_At(tree, p) == IF p = <<>> THEN tree ELSE C3_At(tree.children[p[1]], Tail(p))

RECURSIVE C3_WithoutColgroups(_)
\* a presentational tree with its colgroup elements taken out
C3_WithoutColgroups(tree) ==
  [tree EXCEPT !.children =
     SelectSeq([i \in 1..Len(tree.children) |-> C3_WithoutColgroups(tree.children[i])],
               LAMBDA c : ~(c.type = "element" /\ c.tagName = "colgroup"))]

\* the CSS length of a declared width
C3_WidthText(value) ==
  CASE value = Half -> <<"5", "0", "%">>
    [] value = ThreeHundred -> <<"3", "0", "0", "p", "x">>
    [] value = NaN -> <<"N", "a", "N">>

\* the claim's condition for a colgroup, on the table and the tree toHast gave
C3_Declared(table) ==
  /\ table.colWidths.present
  /\ Len(table.colWidths.v) > 0
  /\ Len(table.rows) > 0
  /\ Len(table.colWidths.v) = table.rows[1]
  /\ C3_TablePaths(ToHast(table)) # {}

\* C3: for every grid table converted, a colgroup is prepended as the first child of
\* the presentational table element iff data.colWidths exists, is non-empty, the
\* table has a row, colWidths.length is the number of cells of the first row, and a
\* table element was found; it then has one col per declared width, in order.  In
\* every other case no colgroup is injected and the table still becomes an html node.
C3_ColgroupIffWidthsMatch ==
  (gDone /\ gBefore[1].ck = "array") =>
    \A pl \in C2_GridPlaces(gBefore) :
      LET table == gBefore[gBefore[pl[1]].children[pl[2]]]
          html == gAfter.heap[gAfter.heap[pl[1]].children[pl[2]]]
          hast == ToHast(table)
      IN /\ html.type = "html"
         /\ C3_WithoutColgroups(html.value) = hast
         /\ ~C3_Declared(table) => html.value = hast
         /\ C3_Declared(table) =>
              LET first == CHOOSE p \in C3_TablePaths(hast) :
                             \A q \in C3_TablePaths(hast) : p = q \/ C3_Before(p, q)
                  element == C3_At(html.value, first)
                  colgroup == element.children[1]
              IN /\ C3_Count(html.value, "colgroup") = 1
                 /\ Tail(element.children) = C3_At(hast, first).children
                 /\ colgroup.type = "element" /\ colgroup.tagName = "colgroup"
                 /\ Len(colgroup.children) = Len(table.colWidths.v)
                 /\ \A i \in 1..Len(table.colWidths.v) :
                      /\ colgroup.children[i].type = "element"
                      /\ colgroup.children[i].tagName = "col"
                      /\ colgroup.children[i].style =
                           <<"w", "i", "d", "t", "h", ":", " ">>
                             \o C3_WidthText(table.colWidths.v[i])

\* C3's case: of two grid tables under one root, the one with colWidths [0.5, 0.5]
\* for 2 columns got a colgroup of two cols of width 50%, the one with 3 colWidths
\* for 2 columns got none and is an html node all the same
C3_Witness ==
  /\ gDone
  /\ gBefore[1].children = <<2, 3>>
  /\ gBefore[2] = GridTable(Present(<<Half, Half>>), <<2>>, "table")
  /\ gBefore[3] = GridTable(Present(<<Half, ThreeHundred, Half>>), <<2, 2>>, "nested")
  /\ LET first == gAfter.heap[gAfter.heap[1].children[1]]
         second == gAfter.heap[gAfter.heap[1].children[2]]
     IN /\ first.type = "html"
        /\ first.value.children[1].tagName = "colgroup"
        /\ Len(first.value.children[1].children) = 2
        /\ first.value.children[1].children[2].style =
             <<"w", "i", "d", "t", "h", ":", " ", "5", "0", "%">>
        /\ second.type = "html"
        /\ C3_Count(second.value, "colgroup") = 0

\* the nodes the traversal meets: the root and the children of the containers reached
C9_Met(heap) ==
  {1} \cup {c \in DOMAIN heap :
              \E n \in C2_Reached(heap) : \E i \in 1..Len(heap[n].children) :
                heap[n].children[i] = c}

\* C9 as stated: when the traversal meets a node whose children field is there but
\* is not an array, the call surfaces an error to its caller and the node is not
\* silently skipped.
C9_NonArrayChildrenRaise ==
  (gDone /\ \E n \in C9_Met(gBefore) : gBefore[n].ck \in {"null", "object"})
    => gAfter.err

\* C9 as the code has it: under a root whose children is an array, a node that is
\* no grid table and whose children field is missing or not an array raises no
\* error; it is a leaf, left in place and unchanged, and the traversal goes on with
\* its next siblings.
C9_NonArrayChildIsLeaf ==
  (gDone /\ gBefore[1].ck = "array") =>
    /\ ~gAfter.err
    /\ \A n \in C2_Reached(gBefore) : \A i \in 1..Len(gBefore[n].children) :
         LET old == gBefore[n].children
             new == gAfter.heap[n].children
             child == old[i]
         IN (gBefore[child].ck # "array" /\ ~(gBefore[child].type = "table"
                                               /\ gBefore[child].dataType = "grid"))
              => /\ Len(new) = Len(old)
                 /\ new[i] = child
                 /\ gAfter.heap[child] = gBefore[child]
                 /\ \A j \in (i + 1)..Len(old) :
                      (gBefore[old[j]].type = "table" /\ gBefore[old[j]].dataType = "grid")
                        => gAfter.heap[new[j]].type = "html"

\* C9's case: the root's first child has a children field that is no array (null or
\* another object), and the grid table after it was converted
C9_Witness ==
  /\ gDone
  /\ ~gAfter.err
  /\ Len(gBefore[1].children) = 2
  /\ gBefore[gBefore[1].children[1]].ck \in {"null", "object"}
  /\ gBefore[gBefore[1].children[2]].dataType = "grid"
  /\ gBefore[gBefore[1].children[2]].type = "table"
  /\ gAfter.heap[1].children[1] = gBefore[1].children[1]
  /\ gAfter.heap[gAfter.heap[1].children[2]].type = "html"

(***************************************************************************)
(* Specifications: one per component, the other components at rest.        *)
(***************************************************************************)
vars == <<nameVars, widthVars, invalidVars, gridVars>>

\* a fresh UniqueFileName instance
NamesInit ==
  /\ usedNames = {}
  /\ fileNameToPreId = << >>
  /\ calls = << >>
  /\ frame = Idle
  /\ wIn = <<>>
  /\ wOut = [done |-> TRUE, value |-> <<>>]
  /\ itRecords = <<>>
  /\ itHeaps = <<>>
  /\ itDone = TRUE
  /\ gBefore = <<>>
  /\ gAfter = [heap |-> <<>>, err |-> FALSE]
  /\ gDone = TRUE

\* generate and generateWithUUID, each call one step
SpecNames == NamesInit /\ [][NamesNext]_vars

\* generate and generateWithUUID, each loop test one step; the calls are
\* synchronous, so a call that has entered keeps running
SpecLoop ==
  /\ NamesInit
  /\ [][LoopNext]_vars
  /\ WF_vars(GenerateStep) /\ WF_vars(GenerateReturn)
  /\ WF_vars(UUIDStep) /\ WF_vars(UUIDReturn)

\* a width text about to be normalized
WidthInit ==
  /\ wIn \in WidthInputs
  /\ wOut = [done |-> FALSE, value |-> <<>>]
  /\ usedNames = {}
  /\ fileNameToPreId = << >>
  /\ calls = << >>
  /\ frame = Idle
  /\ itRecords = <<>>
  /\ itHeaps = <<>>
  /\ itDone = TRUE
  /\ gBefore = <<>>
  /\ gAfter = [heap |-> <<>>, err |-> FALSE]
  /\ gDone = TRUE

\* normalizeWidthValue on every width text
SpecWidth == WidthInit /\ [][WidthNext]_vars

\* a heap and a list of invalid-table records about to be transformed
InvalidInit ==
  /\ itRecords \in SeqsUpTo(InvalidRecords, MaxRecords)
  /\ itHeaps \in {<<h>> : h \in InvalidHeaps}
  /\ itDone = FALSE
  /\ usedNames = {}
  /\ fileNameToPreId = << >>
  /\ calls = << >>
  /\ frame = Idle
  /\ wIn = <<>>
  /\ wOut = [done |-> TRUE, value |-> <<>>]
  /\ gBefore = <<>>
  /\ gAfter = [heap |-> <<>>, err |-> FALSE]
  /\ gDone = TRUE

\* transformInvalidTablesToHtml on every heap and list of records
SpecInvalid == InvalidInit /\ [][InvalidNext]_vars

\* a document about to be transformed
GridInit ==
  /\ gBefore \in TreeHeaps(MaxNodes) \cup ColumnHeaps
  /\ gAfter = [heap |-> <<>>, err |-> FALSE]
  /\ gDone = FALSE
  /\ usedNames = {}
  /\ fileNameToPreId = << >>
  /\ calls = << >>
  /\ frame = Idle
  /\ wIn = <<>>
  /\ wOut = [done |-> TRUE, value |-> <<>>]
  /\ itRecords = <<>>
  /\ itHeaps = <<>>
  /\ itDone = TRUE

\* transformGridToHtml on every document
SpecGrid == GridInit /\ [][GridNext]_vars

====
